---- MODULE Spec2Model ----
(***************************************************************************)
(* Model of the Pomodoro tracker's Streamlit session controller            *)
(* (src/src/pomodorotracker/streamlit_app.py, main, lines 73-216) and of   *)
(* the plan builder it consumes (build_custom_plan, lines 23-45).          *)
(* Further specifications in this module: BuilderSpec calls the two plan   *)
(* builders (scheduler.build_plan, build_custom_plan) on arguments of      *)
(* every sign, AutoSpec is the last main() of streamlit_app.py with its    *)
(* auto-start logic (lines 671-878), CliSpec is the countdown of cli.py.   *)
(*                                                                         *)
(* Streamlit re-executes main() from top to bottom on every rerun.  One    *)
(* rerun reads the sidebar, rebuilds the plan, looks up the current        *)
(* interval, runs the handler of the one button that was clicked (if any)  *)
(* and then the "timer display and logic" block.  Each rerun is therefore  *)
(* one action of the model: Start, Pause, Reset (a rerun caused by that    *)
(* button), Tick (a rerun with no button clicked that finds the sidebar's  *)
(* inputs as they were: experimental_rerun, or a widget outside the model) *)
(* and Sidebar (a rerun caused by a change of one sidebar input: the plan  *)
(* is rebuilt from the new values).  Each rerun happens dt clock ticks     *)
(* after the previous one.  A rerun reads the clock in the button handler  *)
(* and again in the timer logic; the second reading is the same tick or a  *)
(* later one.  Spec has all five actions; FixedSpec is the session whose   *)
(* sidebar is left alone, LiveSpec the one that is run through to its end. *)
(*                                                                         *)
(* time.time() is a float.  The model measures instants in clock ticks of  *)
(* 1/TicksPerSecond seconds, so that int(...) truncation of a fractional   *)
(* difference is part of the model.  st.session_state.remaining and        *)
(* total_seconds are whole seconds, as in the code.                        *)
(***************************************************************************)
EXTENDS Integers, Sequences, FiniteSets, TLC

\* ------------------------------------------------------------------ bounds
TicksPerSecond == 2   \* clock resolution of the model: ticks per second
MaxTime == 6          \* no rerun happens after this many ticks
MaxStep == 2          \* at most this many ticks pass between two reruns
MaxPomodoros == 2     \* sidebar "Pomodoros" drawn from 1..MaxPomodoros
MaxMinutes == 2       \* sidebar "Focus minutes" drawn from 1..MaxMinutes
MaxBreakMinutes == 1  \* sidebar break minutes drawn from 1..MaxBreakMinutes
MaxLag == 1           \* ticks between the two clock readings of one rerun
MaxBuildPomodoros == 3   \* builder calls: pomodoros, cadence from -1..this
MaxBuildMinutes == 2     \* builder calls: each minutes argument from -1..this
MaxBuildRepeat == 2      \* builder calls: repeat from -1..this
MaxCliPomodoros == 1     \* command line: --pomodoros from 1..this
MaxCliMinutes == 2       \* command line: each --*-minutes from 1..this

\* -------------------------------------------------------- program constants
SecondsPerMinute == 60
DefaultRepeat == 1    \* sidebar "Repeat cycles", value=1

NoBar == -1      \* the rerun wrote nothing into prog_placeholder
NoEvent == -1    \* the rerun completed no interval

VARIABLES
    sidebar,         \* the sidebar's number inputs, as the last rerun read them
    plan,            \* plan = build_custom_plan(...) of the last rerun
    fast,            \* sidebar checkbox "Fast demo (1s per minute)"
    edited,          \* a rerun was caused by a change of the sidebar
    current_index,   \* st.session_state.current_index
    running,         \* st.session_state.running
    end_time,        \* st.session_state.end_time, in ticks (0 = 0.0)
    remaining,       \* st.session_state.remaining, whole seconds
    now,             \* time.time() as the last rerun read it last, in ticks
    handler_time,    \* time.time() as the last rerun's button handler read it
    op,              \* what caused the last rerun: "start", "pause", "reset"
                     \* (that button), "tick" (no button), "none" (no rerun yet)
    prev_op,         \* op of the rerun before the last one
    was_running,     \* session_state.running when the last rerun began
    due,             \* the last rerun's running branch saw now >= end_time
    event,           \* index of the interval the last rerun completed
    bar,             \* width the last rerun wrote into the progress bar
    pct,             \* last pct a running rerun reported for this interval
    args,            \* the arguments the plan builders are called with
    built,           \* outcome of build_plan(**args), once called
    custom,          \* outcome of build_custom_plan(*args), once called
    auto_start_breaks,     \* sidebar checkbox "Auto Start Breaks"
    auto_start_pomodoros,  \* sidebar checkbox "Auto Start Pomodoros"
    cli              \* the command line process: its --fast flag, its plan,
                     \* how many intervals it has run, where it is, the loop
                     \* variable of run_interval and the seconds slept in
                     \* the interval it ran last

sessionVars == <<sidebar, plan, fast, edited, current_index, running, end_time,
                 remaining, now, handler_time, op, prev_op, was_running, due,
                 event, bar, pct>>
builderVars == <<args, built, custom>>
autoVars == <<auto_start_breaks, auto_start_pomodoros>>
vars == <<sessionVars, builderVars, autoVars, cli>>

\* ------------------------------------------------------------ arithmetic
Max(a, b) == IF a >= b THEN a ELSE b
Min(a, b) == IF a <= b THEN a ELSE b

\* Python int(x) on the float x = d / TicksPerSecond: truncation towards 0.
IntTrunc(d) ==
    IF d >= 0 THEN d \div TicksPerSecond ELSE -((-d) \div TicksPerSecond)

\* Python a % b for b # 0: the result has the sign of b.
PyMod(a, b) == IF b > 0 THEN a % b ELSE -((-a) % (-b))

\* Python str(index) for the small indices the plan builder formats.
Digit == <<"0", "1", "2", "3", "4", "5", "6", "7", "8", "9">>
RECURSIVE ToStr(_)
ToStr(n) ==
    IF n < 10 THEN Digit[n + 1] ELSE ToStr(n \div 10) \o Digit[(n % 10) + 1]

\* ----------------------------------------------------------- plan builder
Interval(kind, label, duration_seconds) ==
    [kind |-> kind, label |-> label, duration_seconds |-> duration_seconds]

\* The loop body with one long break only, after focus long_interval.
FocusAndBreakOneLong(index, focus_m, short_m, long_m, long_interval) ==
    << Interval("focus", "Focus " \o ToStr(index), focus_m * SecondsPerMinute),
       IF index = long_interval
       THEN Interval("long_break", "Long break", long_m * SecondsPerMinute)
       ELSE Interval("short_break", "Short break " \o ToStr(index),
                     short_m * SecondsPerMinute) >>

\* The body of the inner for-loop for one value of index.
FocusAndBreak(index, focus_m, short_m, long_m, long_interval) ==
    << Interval("focus", "Focus " \o ToStr(index), focus_m * SecondsPerMinute),
       IF PyMod(index, long_interval) = 0
       THEN Interval("long_break", "Long break", long_m * SecondsPerMinute)
       ELSE Interval("short_break", "Short break " \o ToStr(index),
                     short_m * SecondsPerMinute) >>

\* for index in range(1, pomodoros + 1), from index on.
RECURSIVE IndexLoop(_, _, _, _, _, _)
IndexLoop(index, pomodoros, focus_m, short_m, long_m, long_interval) ==
    IF index > pomodoros THEN << >>
    ELSE FocusAndBreak(index, focus_m, short_m, long_m, long_interval)
         \o IndexLoop(index + 1, pomodoros, focus_m, short_m, long_m,
                      long_interval)

\* for _ in range(repeat), with r cycles still to emit.
RECURSIVE RepeatLoop(_, _, _, _, _, _)
RepeatLoop(r, pomodoros, focus_m, short_m, long_m, long_interval) ==
    IF r <= 0 THEN << >>
    ELSE IndexLoop(1, pomodoros, focus_m, short_m, long_m, long_interval)
         \o RepeatLoop(r - 1, pomodoros, focus_m, short_m, long_m,
                       long_interval)

\* build_custom_plan making one pass of its outer loop too few.
build_custom_plan_drops_a_cycle(pomodoros, focus_m, short_m, long_m, long_interval, repeat) ==
    RepeatLoop(repeat - 1, pomodoros, focus_m, short_m, long_m, long_interval)

\* build_custom_plan numbering the focus intervals through all the cycles.
build_custom_plan_numbers_on(pomodoros, focus_m, short_m, long_m, long_interval, repeat) ==
    IF repeat < 1 \/ pomodoros < 1 THEN << >>
    ELSE IndexLoop(1, repeat * pomodoros, focus_m, short_m, long_m,
                   long_interval)

\* The list build_custom_plan returns when it returns.
build_custom_plan(pomodoros, focus_m, short_m, long_m, long_interval, repeat) ==
    RepeatLoop(repeat, pomodoros, focus_m, short_m, long_m, long_interval)

\* Outcome of a call: the exception raised ("none" if the call returned),
\* its message, and the value returned.
Returned(value) == [raised |-> "none", message |-> "", value |-> value]
Raised(exception, message) ==
    [raised |-> exception, message |-> message, value |-> << >>]
NotCalled == [raised |-> "not called", message |-> "", value |-> << >>]

\* A call of build_custom_plan: the function has no check of its arguments;
\* the only statement that can raise is index % long_interval, evaluated in
\* the first pass of the inner loop, when both loops have a pass to make.
call_build_custom_plan(pomodoros, focus_m, short_m, long_m, long_interval, repeat) ==
    IF repeat >= 1 /\ pomodoros >= 1 /\ long_interval = 0
    THEN Raised("ZeroDivisionError", "integer modulo by zero")
    ELSE Returned(build_custom_plan(pomodoros, focus_m, short_m, long_m,
                                    long_interval, repeat))

\* ------------------------------------------------- scheduler.build_plan
\* sum(interval.duration_seconds for interval in intervals)
RECURSIVE SumDurations(_)
SumDurations(intervals) ==
    IF intervals = << >> THEN 0
    ELSE Head(intervals).duration_seconds + SumDurations(Tail(intervals))

\* PomodoroPlan whose total_seconds leaves the first interval out.
PomodoroPlanSkipsFirst(intervals) ==
    [intervals |-> intervals,
     total_seconds |-> IF intervals = << >> THEN 0
                       ELSE SumDurations(Tail(intervals))]

\* PomodoroPlan(intervals=intervals), with its total_seconds property.
PomodoroPlan(intervals) ==
    [intervals |-> intervals, total_seconds |-> SumDurations(intervals)]

\* The loop body without the "if index == pomodoros" branch.
FocusThenBreakAllShort(index, pomodoros, focus_minutes, short_break_minutes, long_break_minutes) ==
    << Interval("focus", "Focus " \o ToStr(index),
                focus_minutes * SecondsPerMinute),
       Interval("short_break", "Short break " \o ToStr(index),
                short_break_minutes * SecondsPerMinute) >>

\* The loop body with the short breaks all labeled "Short break".
FocusThenBreakUnnumbered(index, pomodoros, focus_minutes, short_break_minutes, long_break_minutes) ==
    << Interval("focus", "Focus " \o ToStr(index),
                focus_minutes * SecondsPerMinute),
       IF index = pomodoros
       THEN Interval("long_break", "Long break",
                     long_break_minutes * SecondsPerMinute)
       ELSE Interval("short_break", "Short break",
                     short_break_minutes * SecondsPerMinute) >>

\* The body of build_plan's for-loop for one value of index.
FocusThenBreak(index, pomodoros, focus_minutes, short_break_minutes, long_break_minutes) ==
    << Interval("focus", "Focus " \o ToStr(index),
                focus_minutes * SecondsPerMinute),
       IF index = pomodoros
       THEN Interval("long_break", "Long break",
                     long_break_minutes * SecondsPerMinute)
       ELSE Interval("short_break", "Short break " \o ToStr(index),
                     short_break_minutes * SecondsPerMinute) >>

\* for index in range(1, pomodoros + 1), from index on.
RECURSIVE PlanLoop(_, _, _, _, _)
PlanLoop(index, pomodoros, focus_minutes, short_break_minutes, long_break_minutes) ==
    IF index > pomodoros THEN << >>
    ELSE FocusThenBreak(index, pomodoros, focus_minutes, short_break_minutes,
                        long_break_minutes)
         \o PlanLoop(index + 1, pomodoros, focus_minutes,
                     short_break_minutes, long_break_minutes)

\* build_plan whose duration check lets a duration of 0 pass.
build_plan_allows_zero(pomodoros, focus_minutes, short_break_minutes, long_break_minutes) ==
    IF pomodoros < 1
    THEN Raised("ValueError", "pomodoros must be at least 1")
    ELSE IF Min(focus_minutes, Min(short_break_minutes, long_break_minutes)) < 0
    THEN Raised("ValueError", "all durations must be positive")
    ELSE Returned(PomodoroPlan(PlanLoop(1, pomodoros, focus_minutes,
                                        short_break_minutes,
                                        long_break_minutes)))

build_plan(pomodoros, focus_minutes, short_break_minutes, long_break_minutes) ==
    IF pomodoros < 1
    THEN Raised("ValueError", "pomodoros must be at least 1")
    ELSE IF Min(focus_minutes, Min(short_break_minutes, long_break_minutes)) <= 0
    THEN Raised("ValueError", "all durations must be positive")
    ELSE Returned(PomodoroPlan(PlanLoop(1, pomodoros, focus_minutes,
                                        short_break_minutes,
                                        long_break_minutes)))

\* ------------------------------------------------------- session controller
\* The four session_state fields as one value.
SessionState ==
    [current_index |-> current_index, running |-> running,
     end_time |-> end_time, remaining |-> remaining]

\* The sidebar's number inputs as one value (lines 80-85).
SidebarValue(pomodoros, focus_minutes, short_break_minutes, long_break_minutes, long_break_interval, repeat) ==
    [pomodoros |-> pomodoros, focus_minutes |-> focus_minutes,
     short_break_minutes |-> short_break_minutes,
     long_break_minutes |-> long_break_minutes,
     long_break_interval |-> long_break_interval, repeat |-> repeat]

\* plan = build_custom_plan(...) of a rerun that reads the sidebar as side
\* (lines 91-98).
PlanOf(side) ==
    build_custom_plan(side.pomodoros, side.focus_minutes,
                      side.short_break_minutes, side.long_break_minutes,
                      side.long_break_interval, side.repeat)

\* The values the sidebar's number inputs are given (number_input
\* min_value=1); "Repeat cycles" keeps its default, it only makes the plan
\* longer.
Sidebars ==
    {SidebarValue(pomodoros, focus_m, short_m, long_m, long_interval, DefaultRepeat) :
        pomodoros \in 1..MaxPomodoros, focus_m \in 1..MaxMinutes,
        short_m \in 1..MaxBreakMinutes, long_m \in 1..MaxBreakMinutes,
        long_interval \in 1..MaxPomodoros}

\* The plan every rerun builds, tabulated over those values.
BuiltPlan == [side \in Sidebars |-> PlanOf(side)]

\* curr is not None, in a rerun whose plan is p
HasCurrIn(p, s) == s.current_index < Len(p)

\* total_seconds of a rerun whose plan is p and whose checkbox is f: the
\* effective duration of curr, 0 if none.
total_seconds_in(p, f, s) ==
    IF HasCurrIn(p, s)
    THEN LET d == p[s.current_index + 1].duration_seconds
         IN  IF ~f THEN d ELSE Max(1, d \div SecondsPerMinute)
    ELSE 0

\* The same for a rerun that finds the sidebar as the last rerun did.
HasCurr(s) == HasCurrIn(plan, s)
total_seconds(s) == total_seconds_in(plan, fast, s)

\* StartHandler without the "if curr is not None" guard.
StartHandlerUnguarded(s, t) ==
    [s EXCEPT
        !.end_time = IF s.remaining > 0
                     THEN t + s.remaining * TicksPerSecond
                     ELSE t + total_seconds(s) * TicksPerSecond,
        !.running = TRUE]

\* if cols[0].button("Start"): ...   (s is also the state curr was read from)
StartHandler(s, t) ==
    IF HasCurr(s)
    THEN [s EXCEPT
            !.end_time = IF s.remaining > 0
                         THEN t + s.remaining * TicksPerSecond
                         ELSE t + total_seconds(s) * TicksPerSecond,
            !.running = TRUE]
    ELSE s

\* if cols[1].button("Pause"): ...
PauseHandler(s, t) ==
    [s EXCEPT
        !.running = FALSE,
        !.remaining = IF s.end_time # 0
                      THEN Max(0, IntTrunc(s.end_time - t))
                      ELSE s.remaining]

\* ResetHandler that forgets to clear the carried remainder.
ResetHandlerKeepsRemaining(s, t) ==
    [current_index |-> 0, running |-> FALSE, end_time |-> 0,
     remaining |-> s.remaining]

\* ResetHandler without "st.session_state.current_index = 0".
ResetHandlerKeepsIndex(s, t) ==
    [current_index |-> s.current_index, running |-> FALSE, end_time |-> 0,
     remaining |-> 0]

\* if cols[2].button("Reset"): ...
ResetHandler(s, t) ==
    [current_index |-> 0, running |-> FALSE, end_time |-> 0, remaining |-> 0]

\* no button clicked
NoHandler(s, t) == s

\* Expired with a strict comparison.
ExpiredStrict(rem) == rem < 0

\* remaining <= 0 in the running branch
Expired(rem) == rem <= 0

\* ---- the double arithmetic of line 206: int(min(100, (elapsed / total) * 100))
\* floor(log2(n)) for n >= 1
RECURSIVE Log2Floor(_)
Log2Floor(n) == IF n < 2 THEN 0 ELSE 1 + Log2Floor(n \div 2)

\* The least j with k * 2^j >= 100, for 1 <= k.
RECURSIVE ShiftsTo100(_)
ShiftsTo100(k) == IF k >= 100 THEN 0 ELSE 1 + ShiftsTo100(2 * k)

\* 2^s mod 100 for s >= 2 (the residues repeat with period 20).
Pow2Mod100(s) ==
    << 4, 8, 16, 32, 64, 28, 56, 12, 24, 48,
       96, 92, 84, 68, 36, 72, 44, 88, 76, 52 >>[((s - 2) % 20) + 1]

\* For a whole k >= 0: the double (k / 100) * 100 is below k, so that int()
\* yields k - 1.  The quotient elapsed / total with 100 * elapsed / total = k
\* is the double nearest to k/100, a 53-bit significand m at scale 2^-s; it
\* falls short of k/100 by r / 100 units of 2^-s, r = k * 2^s mod 100, when
\* r < 50.  The product 100 * m * 2^-s is then rounded to the double nearest
\* to it, which is k unless the shortfall exceeds half the spacing of the
\* doubles just below k.
FloatShort(k) ==
    IF k < 1 THEN FALSE
    ELSE LET e2 == Log2Floor(k)
             f2 == IF k >= 100 THEN Log2Floor(k \div 100) ELSE -ShiftsTo100(k)
             s  == 52 - f2
             r  == ((k % 100) * Pow2Mod100(s)) % 100
             half == 2 ^ (e2 - f2 - 1)
             isPow2 == k = 2 ^ e2
         IN  /\ r > 0
             /\ r < 50
             /\ IF isPow2 THEN 2 * r > half ELSE r > half

\* int(x * 100) for the double x = m / total, m >= 0: the floor of the exact
\* quotient, one less where the exact quotient is whole and the double
\* product falls short of it.
FloatPercent(m, total) ==
    LET q == (100 * m) \div total
    IN  IF (100 * m) % total = 0 /\ FloatShort(q) THEN q - 1 ELSE q

\* pct of the running branch (lines 205-206); int() truncates towards 0, so
\* a negative elapsed (remaining above total_seconds) is handled by sign.
Pct(total, rem) ==
    IF total > 0
    THEN LET elapsed == total - rem
         IN  Min(100, IF elapsed >= 0 THEN FloatPercent(elapsed, total)
                      ELSE -FloatPercent(-elapsed, total))
    ELSE 0

\* The timer logic with a completion that moves one interval back.
TimerLogicStepsBack(p, f, s0, s, t) ==
    IF ~HasCurrIn(p, s0)
    THEN [s |-> s, bar |-> NoBar, event |-> NoEvent, due |-> FALSE]
    ELSE IF s.running
    THEN LET rem == IntTrunc(s.end_time - t)
         IN  IF Expired(rem)
             THEN [s |-> [current_index |-> s.current_index - 1,
                          running |-> FALSE, end_time |-> 0, remaining |-> 0],
                   bar |-> NoBar, event |-> s.current_index,
                   due |-> t >= s.end_time]
             ELSE [s |-> s, bar |-> Pct(total_seconds_in(p, f, s0), rem),
                   event |-> NoEvent, due |-> t >= s.end_time]
    ELSE [s |-> s, bar |-> 0, event |-> NoEvent, due |-> FALSE]

\* The timer logic with a completion that stays on the interval.
TimerLogicStaysOnInterval(p, f, s0, s, t) ==
    IF ~HasCurrIn(p, s0)
    THEN [s |-> s, bar |-> NoBar, event |-> NoEvent, due |-> FALSE]
    ELSE IF s.running
    THEN LET rem == IntTrunc(s.end_time - t)
         IN  IF Expired(rem)
             THEN [s |-> [current_index |-> s.current_index,
                          running |-> FALSE, end_time |-> 0, remaining |-> 0],
                   bar |-> NoBar, event |-> s.current_index,
                   due |-> t >= s.end_time]
             ELSE [s |-> s, bar |-> Pct(total_seconds_in(p, f, s0), rem),
                   event |-> NoEvent, due |-> t >= s.end_time]
    ELSE [s |-> s, bar |-> 0, event |-> NoEvent, due |-> FALSE]

\* "Timer display and logic" of a rerun with plan p and checkbox f: s0 is the
\* state curr and total_seconds were read from at the top of the rerun, s
\* the state after the button handler, t the clock as line 189 reads it.
\* Yields the state the rerun leaves, the width written into the progress
\* bar, the index of the interval it completed and whether the running
\* branch found the deadline reached.
TimerLogic(p, f, s0, s, t) ==
    IF ~HasCurrIn(p, s0)
    THEN [s |-> s, bar |-> NoBar, event |-> NoEvent, due |-> FALSE]
    ELSE IF s.running
    THEN LET rem == IntTrunc(s.end_time - t)
         IN  IF Expired(rem)
             THEN [s |-> [current_index |-> s.current_index + 1,
                          running |-> FALSE, end_time |-> 0, remaining |-> 0],
                   bar |-> NoBar, event |-> s.current_index,
                   due |-> t >= s.end_time]
             ELSE [s |-> s, bar |-> Pct(total_seconds_in(p, f, s0), rem),
                   event |-> NoEvent, due |-> t >= s.end_time]
    ELSE [s |-> s, bar |-> 0, event |-> NoEvent, due |-> FALSE]

\* One rerun of main(): it begins dt ticks after the previous rerun read
\* the clock, finds the sidebar's number inputs as side and its checkbox
\* as f, and is caused by button (or by nothing: "tick", or by the sidebar:
\* "sidebar").  mid is the state the button's handler leaves, having read
\* the clock at now + dt; the timer logic reads the clock lag ticks after
\* that.  No clock reading is later than the instant limit.
RerunBefore(limit, button, dt, lag, side, f, mid) ==
    /\ now + dt + lag <= limit
    /\ \E p \in {BuiltPlan[side]} :
       \E out \in {TimerLogic(p, f, SessionState, mid, now + dt + lag)} :
        /\ sidebar' = side
        /\ plan' = p
        /\ fast' = f
        /\ edited' = (edited \/ button = "sidebar")
        /\ handler_time' = now + dt
        /\ now' = now + dt + lag
        /\ current_index' = out.s.current_index
        /\ running' = out.s.running
        /\ end_time' = out.s.end_time
        /\ remaining' = out.s.remaining
        /\ op' = button
        /\ prev_op' = op
        /\ was_running' = running
        /\ due' = out.due
        /\ event' = out.event
        /\ bar' = out.bar
        /\ pct' = IF out.s.current_index # current_index \/ button = "reset"
                  THEN NoBar
                  ELSE IF out.s.running THEN out.bar ELSE pct
        /\ UNCHANGED <<builderVars, autoVars, cli>>

Rerun(button, dt, lag, side, f, mid) == RerunBefore(MaxTime, button, dt, lag, side, f, mid)

\* The sidebars that differ from side in one number input.
OneInputChanged(side) ==
    {other \in Sidebars :
        Cardinality({w \in DOMAIN side : other[w] # side[w]}) = 1}

\* A click on Start: the handler reads the clock (line 168 or 170) and the
\* timer logic reads it again (line 189).
Start == \E dt \in 0..MaxStep, lag \in 0..MaxLag :
            Rerun("start", dt, lag, sidebar, fast, StartHandler(SessionState, now + dt))
\* A click on Pause or Reset: the session is left stopped, the timer logic
\* does not read the clock.
Pause == \E dt \in 0..MaxStep : Rerun("pause", dt, 0, sidebar, fast, PauseHandler(SessionState, now + dt))
Reset == \E dt \in 0..MaxStep : Rerun("reset", dt, 0, sidebar, fast, ResetHandler(SessionState, now + dt))
\* A rerun without a click and with the sidebar as it was.
Tick  == \E dt \in 0..MaxStep : Rerun("tick", dt, 0, sidebar, fast, NoHandler(SessionState, now + dt))
\* The rerun that follows the change of one sidebar widget.  A session is
\* followed through one such change.
Sidebar ==
    /\ ~edited
    /\ \E dt \in 0..MaxStep :
          \/ \E side \in OneInputChanged(sidebar) :
                Rerun("sidebar", dt, 0, side, fast, NoHandler(SessionState, now + dt))
          \/ Rerun("sidebar", dt, 0, sidebar, ~fast, NoHandler(SessionState, now + dt))

\* No call of a plan builder is being followed.
NoArgs ==
    [pomodoros |-> 0, focus_minutes |-> 0, short_break_minutes |-> 0,
     long_break_minutes |-> 0, long_interval |-> 0, repeat |-> 0]
BuildersIdle == args = NoArgs /\ built = NotCalled /\ custom = NotCalled

\* No command line process is being followed.
NoCli == [fast |-> FALSE, plan |-> << >>, done |-> 0, pc |-> "none",
          remaining |-> 0, slept |-> 0]
CliIdle == cli = NoCli

\* The dashboard has no auto-start checkboxes (main, lines 73-216).
NoAutoStart == auto_start_breaks = FALSE /\ auto_start_pomodoros = FALSE

\* No Streamlit session is being followed.
NoSidebar == SidebarValue(0, 0, 0, 0, 0, 0)
SessionIdle ==
    /\ sidebar = NoSidebar /\ plan = << >> /\ fast = FALSE /\ edited = FALSE
    /\ handler_time = 0
    /\ current_index = 0 /\ running = FALSE /\ end_time = 0 /\ remaining = 0
    /\ now = 0 /\ op = "none" /\ prev_op = "none" /\ was_running = FALSE
    /\ due = FALSE /\ event = NoEvent /\ bar = NoBar /\ pct = NoBar

\* A session is opened with any of the sidebar values.
Init ==
    /\ sidebar \in Sidebars
    /\ plan = BuiltPlan[sidebar]
    /\ edited = FALSE
    /\ handler_time = 0
    /\ fast \in BOOLEAN
    /\ current_index = 0
    /\ running = FALSE
    /\ end_time = 0
    /\ remaining = 0
    /\ now = 0
    /\ op = "none"
    /\ prev_op = "none"
    /\ was_running = FALSE
    /\ due = FALSE
    /\ event = NoEvent
    /\ bar = NoBar
    /\ pct = NoBar
    /\ BuildersIdle
    /\ NoAutoStart
    /\ CliIdle

Next == Start \/ Pause \/ Reset \/ Tick \/ Sidebar

Spec == Init /\ [][Next]_vars

\* The session of a user who leaves the sidebar alone once the session is
\* opened: every rerun rebuilds the same plan.
NextFixed == Start \/ Pause \/ Reset \/ Tick

FixedSpec == Init /\ [][NextFixed]_vars

\* ------------------------------------------- a session that is run through
\* The running branch of the timer logic ends with time.sleep(1) and
\* experimental_rerun() (lines 209-210), the completion branch with
\* time.sleep(0.6) and experimental_rerun() (lines 201-202): while the
\* session is running, and once more after each completion, the program
\* itself causes the next rerun, later on the clock.  LiveSpec is the
\* session of a user who clicks Start whenever the session is stopped on an
\* interval and touches nothing else.  The demo scale (fast) keeps every
\* deadline within a few seconds of the clock.

\* time.sleep(0.6) in ticks, rounded up to a whole tick.
CompletionSleep == (6 * TicksPerSecond + 9) \div 10

\* An instant by which such a session has completed every interval of its
\* plan: an interval of at most MaxMinutes or MaxBreakMinutes effective
\* seconds is started at most MaxStep ticks after the rerun that followed
\* the previous completion, its deadline set at most MaxLag ticks before
\* the rerun's last clock reading, and completed at most one tick after its
\* deadline; the rerun after the completion comes at most one tick after
\* its sleep.
LiveHorizon ==
    Len(plan) * (TicksPerSecond * Max(MaxMinutes, MaxBreakMinutes)
                 + 2 * MaxStep + MaxLag + CompletionSleep + 1)

InitLive == Init /\ fast = TRUE

\* The last rerun completed an interval and asked for a rerun.
RerunAsked == event # NoEvent

\* The user clicks Start on a stopped session that has an interval; the
\* rerun a completion asked for has been made.
LiveStart ==
    /\ ~running
    /\ ~RerunAsked
    /\ HasCurr(SessionState)
    /\ \E dt \in 0..MaxStep, lag \in 0..MaxLag :
          RerunBefore(LiveHorizon, "start", dt, lag, sidebar, fast,
                      StartHandler(SessionState, now + dt))

\* The rerun the running branch asked for: it reads the clock one second
\* of sleep after the previous rerun did, or a tick more than that.
LiveTick ==
    /\ running
    /\ \E dt \in TicksPerSecond..(TicksPerSecond + 1) :
          RerunBefore(LiveHorizon, "tick", dt, 0, sidebar, fast, NoHandler(SessionState, now + dt))

\* The rerun the completion branch asked for: main() runs on the stopped
\* session, 0.6 seconds of sleep after the completing rerun or a tick more
\* than that, and draws the next interval's timer or '--:--'.
LiveRerun ==
    /\ ~running
    /\ RerunAsked
    /\ \E dt \in CompletionSleep..(CompletionSleep + 1) :
          RerunBefore(LiveHorizon, "tick", dt, 0, sidebar, fast, NoHandler(SessionState, now + dt))

NextLive == LiveStart \/ LiveTick \/ LiveRerun

\* The program's own reruns keep coming while it runs and after each
\* completion, and the user's Start is not withheld for ever.
LiveFairness == WF_vars(LiveTick) /\ WF_vars(LiveRerun) /\ WF_vars(LiveStart)

LiveSpec == InitLive /\ [][NextLive]_vars /\ LiveFairness

\* ------------------------------------ session controller with auto-start
\* The last main() of streamlit_app.py (lines 671-878) has the same session
\* state and the same three buttons, computes total_seconds without the
\* max(1, ...), and follows a completion by its "auto-start logic".

\* total_seconds of a rerun whose plan is p and whose checkbox is f
\* (lines 776-781).
total_seconds_auto_in(p, f, s) ==
    IF HasCurrIn(p, s)
    THEN LET d == p[s.current_index + 1].duration_seconds
         IN  IF ~f THEN d ELSE d \div SecondsPerMinute
    ELSE 0

\* The same for a rerun that finds the sidebar as the last rerun did.
total_seconds_auto(s) == total_seconds_auto_in(plan, fast, s)

\* if cols[0].button("Start"): ...   (lines 785-791)
StartHandlerAuto(s, t) ==
    IF HasCurr(s)
    THEN [s EXCEPT
            !.end_time = IF s.remaining > 0
                         THEN t + s.remaining * TicksPerSecond
                         ELSE t + total_seconds_auto(s) * TicksPerSecond,
            !.running = TRUE]
    ELSE s

\* next_interval.kind.startswith("short_break") or ... == "long_break"
IsBreak(interval) == interval.kind \in {"short_break", "long_break"}

\* "auto-start logic" (lines 834-877) on the state s the completion left,
\* in a rerun with plan p, checkbox f and "Auto Start Breaks" asb; t is the
\* clock as line 841 reads it.  The branch taken when the next interval is
\* not a break draws the timer of a stopped session: the progress bar is
\* created at 0 and written with 0.  auto_start_pomodoros is read from the
\* sidebar and used nowhere.
AutoStartLogic(p, f, asb, s, t) ==
    IF s.current_index < Len(p)
    THEN LET next_interval == p[s.current_index + 1]
             secs == IF ~f THEN next_interval.duration_seconds
                     ELSE next_interval.duration_seconds \div SecondsPerMinute
         IN  IF IsBreak(next_interval)
             THEN IF asb
                  THEN [s |-> [s EXCEPT !.running = TRUE,
                                        !.end_time = t + secs * TicksPerSecond],
                        bar |-> NoBar, read |-> TRUE]
                  ELSE [s |-> s, bar |-> NoBar, read |-> FALSE]
             ELSE [s |-> s, bar |-> 0, read |-> FALSE]
    ELSE [s |-> s, bar |-> NoBar, read |-> FALSE]

\* Lines 802-877: the running branch completes the interval when no whole
\* second is left and otherwise does nothing; nothing is drawn for a
\* session that is not running.  t is the clock as line 807 reads it, the
\* auto-start logic reads it lag ticks later.  Yields also the last clock
\* reading taken.
TimerLogicAuto(p, f, asb, s0, s, t, lag) ==
    IF ~HasCurrIn(p, s0)
    THEN [s |-> s, bar |-> NoBar, event |-> NoEvent, due |-> FALSE, last |-> t]
    ELSE IF s.running
    THEN LET rem == IntTrunc(s.end_time - t)
         IN  IF Expired(rem)
             THEN LET auto == AutoStartLogic(p, f, asb,
                                [current_index |-> s.current_index + 1,
                                 running |-> FALSE, end_time |-> 0,
                                 remaining |-> 0], t + lag)
                  IN  [s |-> auto.s, bar |-> auto.bar,
                       event |-> s.current_index, due |-> t >= s.end_time,
                       last |-> IF auto.read THEN t + lag ELSE t]
             ELSE [s |-> s, bar |-> NoBar, event |-> NoEvent,
                   due |-> t >= s.end_time, last |-> t]
    ELSE [s |-> s, bar |-> NoBar, event |-> NoEvent, due |-> FALSE, last |-> t]

\* One rerun of the last main(): as RerunBefore, with the two auto-start
\* checkboxes read as asb and asp and with lag2 ticks between the clock
\* reading of the running branch and that of the auto-start logic.
RerunAuto(button, dt, lag, lag2, side, f, asb, asp, mid) ==
    /\ now + dt + lag + lag2 <= MaxTime
    /\ \E p \in {BuiltPlan[side]} :
       \E out \in {TimerLogicAuto(p, f, asb, SessionState, mid, now + dt + lag, lag2)} :
        /\ sidebar' = side
        /\ plan' = p
        /\ fast' = f
        /\ auto_start_breaks' = asb
        /\ auto_start_pomodoros' = asp
        /\ edited' = (edited \/ button = "sidebar")
        /\ handler_time' = now + dt
        /\ now' = out.last
        /\ current_index' = out.s.current_index
        /\ running' = out.s.running
        /\ end_time' = out.s.end_time
        /\ remaining' = out.s.remaining
        /\ op' = button
        /\ prev_op' = op
        /\ was_running' = running
        /\ due' = out.due
        /\ event' = out.event
        /\ bar' = out.bar
        /\ UNCHANGED <<pct, builderVars, cli>>

StartAuto == \E dt \in 0..MaxStep, lag \in 0..MaxLag, lag2 \in 0..MaxLag :
                RerunAuto("start", dt, lag, lag2, sidebar, fast, auto_start_breaks, auto_start_pomodoros, StartHandlerAuto(SessionState, now + dt))
PauseAuto == \E dt \in 0..MaxStep :
                RerunAuto("pause", dt, 0, 0, sidebar, fast, auto_start_breaks, auto_start_pomodoros, PauseHandler(SessionState, now + dt))
ResetAuto == \E dt \in 0..MaxStep :
                RerunAuto("reset", dt, 0, 0, sidebar, fast, auto_start_breaks, auto_start_pomodoros, ResetHandler(SessionState, now + dt))
TickAuto  == \E dt \in 0..MaxStep, lag2 \in 0..MaxLag :
                RerunAuto("tick", dt, 0, lag2, sidebar, fast, auto_start_breaks, auto_start_pomodoros, NoHandler(SessionState, now + dt))
\* The rerun that follows the change of one sidebar widget.
SidebarAuto ==
    /\ ~edited
    /\ \E dt \in 0..MaxStep, lag2 \in 0..MaxLag :
          \/ \E side \in OneInputChanged(sidebar) :
                RerunAuto("sidebar", dt, 0, lag2, side, fast, auto_start_breaks, auto_start_pomodoros, NoHandler(SessionState, now + dt))
          \/ RerunAuto("sidebar", dt, 0, lag2, sidebar, ~fast, auto_start_breaks, auto_start_pomodoros, NoHandler(SessionState, now + dt))
          \/ RerunAuto("sidebar", dt, 0, lag2, sidebar, fast, ~auto_start_breaks, auto_start_pomodoros, NoHandler(SessionState, now + dt))
          \/ RerunAuto("sidebar", dt, 0, lag2, sidebar, fast, auto_start_breaks, ~auto_start_pomodoros, NoHandler(SessionState, now + dt))

InitAuto ==
    /\ sidebar \in Sidebars
    /\ plan = BuiltPlan[sidebar]
    /\ edited = FALSE
    /\ handler_time = 0
    /\ fast \in BOOLEAN
    /\ auto_start_breaks \in BOOLEAN
    /\ auto_start_pomodoros \in BOOLEAN
    /\ current_index = 0 /\ running = FALSE /\ end_time = 0 /\ remaining = 0
    /\ now = 0 /\ op = "none" /\ prev_op = "none" /\ was_running = FALSE
    /\ due = FALSE /\ event = NoEvent /\ bar = NoBar /\ pct = NoBar
    /\ BuildersIdle
    /\ CliIdle

NextAuto == StartAuto \/ PauseAuto \/ ResetAuto \/ TickAuto \/ SidebarAuto

AutoSpec == InitAuto /\ [][NextAuto]_vars

\* ------------------------------------------------------ command line
\* cli.main (lines 45-74) builds the plan with build_plan and, unless
\* --dry-run, calls run_interval on each interval in turn.  Each pass of
\* run_interval's for-loop is one action; time.sleep(n) adds n to the
\* seconds slept.  Ctrl+C and --dry-run are left out.

\* second_length = 1 if args.fast else 60
second_length(is_fast) == IF is_fast THEN 1 ELSE 60

InitCli ==
    /\ \E is_fast \in BOOLEAN, pomodoros \in 1..MaxCliPomodoros,
          focus_minutes \in 1..MaxCliMinutes,
          short_break_minutes \in 1..MaxCliMinutes,
          long_break_minutes \in 1..MaxCliMinutes :
          cli = [fast |-> is_fast,
                 plan |-> build_plan(pomodoros, focus_minutes,
                                     short_break_minutes,
                                     long_break_minutes).value.intervals,
                 done |-> 0, pc |-> "main", remaining |-> 0, slept |-> 0]
    /\ SessionIdle
    /\ BuildersIdle
    /\ NoAutoStart

\* for interval in plan: run_interval(interval, second_length=...) up to
\* the head of its for-loop, remaining = interval.duration_seconds.
EnterInterval ==
    /\ cli.pc = "main"
    /\ cli.done < Len(cli.plan)
    /\ cli' = [cli EXCEPT !.pc = "run_interval",
                          !.remaining = cli.plan[cli.done + 1].duration_seconds,
                          !.slept = 0]
    /\ UNCHANGED <<sessionVars, builderVars, autoVars>>

\* One pass of the for-loop with remaining # 0: write the time, sleep
\* max(second_length, 1) seconds, take the next value of the range.
CountdownStep ==
    /\ cli.pc = "run_interval"
    /\ cli.remaining # 0
    /\ cli' = [cli EXCEPT !.slept = cli.slept + Max(second_length(cli.fast), 1),
                          !.remaining = cli.remaining - 1]
    /\ UNCHANGED <<sessionVars, builderVars, autoVars>>

\* The last pass, remaining = 0: write the time, no sleep, print Done and
\* return to main's loop.
LeaveInterval ==
    /\ cli.pc = "run_interval"
    /\ cli.remaining = 0
    /\ cli' = [cli EXCEPT !.pc = "main", !.done = cli.done + 1]
    /\ UNCHANGED <<sessionVars, builderVars, autoVars>>

NextCli == EnterInterval \/ CountdownStep \/ LeaveInterval

CliSpec == InitCli /\ [][NextCli]_vars

\* ------------------------------------------- calls of the plan builders
\* The two builders are functions of their arguments alone.  A behaviour of
\* BuilderSpec fixes one tuple of arguments, valid or not, and calls each
\* builder on it once, in either order.
BuilderArgs ==
    [pomodoros : -1..MaxBuildPomodoros,
     focus_minutes : -1..MaxBuildMinutes,
     short_break_minutes : -1..MaxBuildMinutes,
     long_break_minutes : -1..MaxBuildMinutes,
     long_interval : -1..MaxBuildPomodoros,
     repeat : -1..MaxBuildRepeat]

InitBuilders ==
    /\ args \in BuilderArgs
    /\ built = NotCalled
    /\ custom = NotCalled
    /\ SessionIdle
    /\ NoAutoStart
    /\ CliIdle

\* plan = build_plan(pomodoros=..., focus_minutes=..., ...)
CallBuildPlan ==
    /\ built = NotCalled
    /\ built' = build_plan(args.pomodoros, args.focus_minutes,
                           args.short_break_minutes, args.long_break_minutes)
    /\ UNCHANGED <<args, custom, sessionVars, autoVars, cli>>

\* plan = build_custom_plan(pomodoros, focus_m, short_m, long_m,
\*                         long_interval, repeat)
CallBuildCustomPlan ==
    /\ custom = NotCalled
    /\ custom' = call_build_custom_plan(args.pomodoros, args.focus_minutes,
                                        args.short_break_minutes,
                                        args.long_break_minutes,
                                        args.long_interval, args.repeat)
    /\ UNCHANGED <<args, built, sessionVars, autoVars, cli>>

NextBuilders == CallBuildPlan \/ CallBuildCustomPlan

BuilderSpec == InitBuilders /\ [][NextBuilders]_vars

TypeOK ==
    /\ sidebar \in [{"pomodoros", "focus_minutes", "short_break_minutes",
                     "long_break_minutes", "long_break_interval", "repeat"}
                    -> Nat]
    /\ fast \in BOOLEAN
    /\ edited \in BOOLEAN
    /\ current_index \in Nat
    /\ running \in BOOLEAN
    /\ end_time \in Nat
    /\ remaining \in Nat
    /\ now \in Nat
    /\ handler_time \in 0..now
    /\ op \in {"none", "start", "pause", "reset", "tick", "sidebar"}
    /\ event \in {NoEvent} \cup Nat
    /\ bar \in Int /\ bar <= 100

\* ------------------------------------------------------------- properties
\* Most properties are about one rerun, a step of the model: the unprimed
\* variables are the session before the rerun, the primed ones the session
\* after it, op' the button that caused it, handler_time' the clock as the
\* button's handler read it and now' the clock as the timer logic read it.
\* The spec's plan is immutable: the properties are about a session whose
\* sidebar has been left alone (FixedSpec, or edited' = FALSE under Spec).

\* The spec's states of the controller, read off the session state.
Finished == current_index >= Len(plan)
Paused == ~running /\ end_time # 0 /\ ~Finished

\* Seconds an interval lasts under the time scaling of section 5: one real
\* second per plan minute in fast mode, true seconds otherwise.
EffectiveSeconds(i) ==
    IF fast THEN plan[i].duration_seconds \div SecondsPerMinute
    ELSE plan[i].duration_seconds

\* Whole seconds left until deadline e at instant t.
SecondsLeft(e, t) == IntTrunc(e - t)

session == <<current_index, running, end_time, remaining>>

\* C1: pause() of a Running session immediately followed by start(), with no
\* time passing in between, leaves a Running session with the same
\* remaining-seconds count as before the pause (pause leaves end_time alone,
\* so the unprimed end_time is still the deadline the session ran towards).
C1_PauseResumeRoundTrip ==
    [][(op = "pause" /\ was_running /\ op' = "start" /\ now' = now
        /\ ~edited')
       => /\ running'
          /\ SecondsLeft(end_time', now') = SecondsLeft(end_time, now)]_vars

\* C2: start() on a session that is already Running changes none of
\* current_index, running, deadline and carried_remaining (reruns in which
\* the timer logic then completes the interval are left aside).
C2_StartWhileRunningIsNoOp ==
    [][(op' = "start" /\ running /\ event' = NoEvent /\ ~edited')
       => UNCHANGED session]_vars

\* C3: pause() on a session that is not Running (Idle, Paused, Finished)
\* changes none of current_index, running, deadline and carried_remaining.
C3_PauseWhileNotRunningIsNoOp ==
    [][(op' = "pause" /\ ~running /\ ~edited') => UNCHANGED session]_vars

\* C4: start() on a not-running session with an interval left sets running
\* and the deadline now + carried_remaining when it was Paused, and
\* now + the effective duration of the current interval otherwise (reruns
\* in which the timer logic then completes the interval are left aside).
C4_StartDeadline ==
    [][(op' = "start" /\ ~running /\ ~Finished /\ event' = NoEvent
        /\ ~edited')
       => /\ running'
          /\ end_time' =
               handler_time' + TicksPerSecond *
                      (IF Paused THEN remaining
                       ELSE EffectiveSeconds(current_index + 1))]_vars

\* C5: a running session stores no carried remainder, and a session that is
\* not running is not driven by its deadline: a rerun without Start or Reset
\* leaves it as it was.
C5_OneOfDeadlineOrCarried ==
    /\ []((running /\ ~edited) => remaining = 0)
    /\ [][(~running /\ op' \in {"pause", "tick"} /\ ~edited')
          => UNCHANGED session]_vars

\* C6: reset() leaves current_index = 0, running = false and no carried
\* remainder whatever the state before, and the start() that follows it sets
\* the deadline to now + the effective duration of the plan's first
\* interval, now being the clock as start() reads it: the rerun leaves the
\* session running towards that deadline, unless its timer logic, reading
\* the clock after start() did, finds no whole second left before that
\* deadline and completes the first interval.
C6_ResetThenStart ==
    [][/\ op' = "reset" => (current_index' = 0 /\ ~running' /\ remaining' = 0)
       /\ (op = "reset" /\ op' = "start")
          => \/ /\ running'
                /\ current_index' = 0
                /\ event' = NoEvent
                /\ end_time' = handler_time'
                                + TicksPerSecond * EffectiveSeconds(1)
             \/ /\ event' = 0
                /\ SecondsLeft(handler_time'
                               + TicksPerSecond * EffectiveSeconds(1),
                               now') <= 0]_vars

\* C6 witness: a session that had run was reset and then started again
\* later, and the timer logic read the clock after start() did.
C6_Witness ==
    /\ op = "start" /\ prev_op = "reset" /\ running /\ handler_time > 0
    /\ now > handler_time
    /\ end_time = handler_time + TicksPerSecond * EffectiveSeconds(1)

\* C7: a tick of a Running session at or after the deadline completes the
\* interval at current_index once: current_index grows by exactly 1 and
\* running, deadline and carried_remaining are cleared.
C7_CompletionAtDeadline ==
    [][(op' = "tick" /\ running /\ now' >= end_time)
       => /\ event' = current_index
          /\ current_index' = current_index + 1
          /\ ~running' /\ end_time' = 0 /\ remaining' = 0]_vars

\* C7 witness: a tick found the deadline reached and completed the interval.
C7_Witness ==
    op = "tick" /\ was_running /\ due /\ event = current_index - 1

\* C8: a tick of a Running session strictly before the deadline changes none
\* of current_index, running and the deadline.
C8_TickBeforeDeadline ==
    [][(op' = "tick" /\ running /\ now' < end_time /\ ~edited')
       => UNCHANGED <<current_index, running, end_time>>]_vars

\* C9: in the Finished state start(), pause() and tick() leave the whole
\* session state unchanged and complete nothing.
C9_FinishedIsTerminal ==
    [][(Finished /\ op' \in {"start", "pause", "tick"})
       => UNCHANGED session /\ event' = NoEvent]_vars

\* C9 witness: Start was clicked on a Finished session (the rerun completed
\* no interval, so the session was Finished when it began).
C9_Witness ==
    Finished /\ op = "start" /\ ~was_running /\ event = NoEvent /\ ~running

\* C10: the percentages reported for one interval never decrease, and the
\* rerun that completes an interval reports exactly 100.
C10_PercentageMonotoneTo100 ==
    [][~edited'
       => /\ (running' /\ pct # NoBar /\ pct' # NoBar) => pct <= pct'
          /\ event' # NoEvent => bar' = 100]_vars

\* round(n / d) for n >= 0, d > 0: nearest whole number, ties to the even one.
Round(n, d) ==
    LET q == n \div d
        twice == 2 * (n % d)
    IN  IF twice < d THEN q
        ELSE IF twice > d THEN q + 1
        ELSE IF q % 2 = 0 THEN q ELSE q + 1

\* The active interval's effective duration and the whole seconds left on
\* it, as a rerun that leaves the session running saw them.
ActiveTotal == EffectiveSeconds(current_index + 1)
ActiveLeft == SecondsLeft(end_time, now)

\* C11: a rerun that reports a percentage for a running interval reports
\* round(100 * elapsed / total), elapsed = total - remaining, and the value
\* lies in [0, 100].
C11_PercentageRounded ==
    (running /\ bar # NoBar)
    => /\ bar = Round(100 * (ActiveTotal - ActiveLeft), ActiveTotal)
       /\ bar \in 0..100

\* ------------------------------------------------ plan builder claims
\* A valid configuration of the simple builder, and of the cadence one.
ValidSimple ==
    /\ args.pomodoros >= 1
    /\ args.focus_minutes > 0
    /\ args.short_break_minutes > 0
    /\ args.long_break_minutes > 0
ValidCustom == ValidSimple /\ args.long_interval >= 1 /\ args.repeat >= 1

BuiltCalled == built # NotCalled
CustomCalled == custom # NotCalled

\* C12: for a valid configuration build_plan returns 2 * pomodoros
\* intervals and build_custom_plan repeat * 2 * pomodoros intervals.
C12_PlanLength ==
    /\ (BuiltCalled /\ ValidSimple)
       => /\ built.raised = "none"
          /\ Len(built.value.intervals) = 2 * args.pomodoros
    /\ (CustomCalled /\ ValidCustom)
       => /\ custom.raised = "none"
          /\ Len(custom.value) = args.repeat * 2 * args.pomodoros

\* C12 witness: both builders were called on a valid configuration of
\* several pomodoros and several cycles.
C12_Witness ==
    /\ BuiltCalled /\ CustomCalled /\ ValidCustom
    /\ args.pomodoros >= 2 /\ args.repeat >= 2
    /\ Len(custom.value) = args.repeat * Len(built.value.intervals)

\* Number of intervals of one kind in a list of intervals.
CountKind(intervals, kind) ==
    Cardinality({i \in DOMAIN intervals : intervals[i].kind = kind})

\* C13: total_seconds is the sum of the member durations: for build_plan
\* pomodoros * focus * 60 + (pomodoros - 1) * short * 60 + long * 60, and
\* for the cadence plan repeat * pomodoros * focus * 60 plus each kind of
\* break counted at its own length.
C13_TotalSeconds ==
    /\ (BuiltCalled /\ ValidSimple)
       => built.value.total_seconds
            = args.pomodoros * args.focus_minutes * 60
              + (args.pomodoros - 1) * args.short_break_minutes * 60
              + args.long_break_minutes * 60
    /\ (CustomCalled /\ ValidCustom)
       => PomodoroPlan(custom.value).total_seconds
            = args.repeat * args.pomodoros * args.focus_minutes * 60
              + CountKind(custom.value, "long_break")
                  * args.long_break_minutes * 60
              + CountKind(custom.value, "short_break")
                  * args.short_break_minutes * 60

\* C13 witness: build_plan returned a plan of several pomodoros whose three
\* durations differ, so that no term of the sum can stand in for another.
C13_Witness ==
    /\ BuiltCalled /\ ValidSimple /\ args.pomodoros >= 2
    /\ args.focus_minutes # args.short_break_minutes
    /\ args.focus_minutes # args.long_break_minutes
    /\ built.value.total_seconds > 0

\* C14: build_plan returns Focus 1, Short break 1, ..., Focus N, Long break:
\* each focus interval is followed by one break, short and numbered after
\* every focus interval but the last, and the only long break is last.
C14_SimpleOrder ==
    (BuiltCalled /\ ValidSimple)
    => LET iv == built.value.intervals
           N == args.pomodoros
       IN  /\ Len(iv) = 2 * N
           /\ \A i \in 1..N :
                 /\ iv[2 * i - 1] = [kind |-> "focus",
                                     label |-> "Focus " \o ToStr(i),
                                     duration_seconds |-> args.focus_minutes * 60]
                 /\ i < N => iv[2 * i] =
                        [kind |-> "short_break",
                         label |-> "Short break " \o ToStr(i),
                         duration_seconds |-> args.short_break_minutes * 60]
           /\ iv[2 * N] = [kind |-> "long_break", label |-> "Long break",
                           duration_seconds |-> args.long_break_minutes * 60]
           /\ CountKind(iv, "long_break") = 1

\* C14 witness: the plan of the documented example, build_plan(pomodoros=2,
\* focus_minutes=1, short_break_minutes=1, long_break_minutes=2).
C14_Witness ==
    /\ BuiltCalled
    /\ args.pomodoros = 2 /\ args.focus_minutes = 1
    /\ args.short_break_minutes = 1 /\ args.long_break_minutes = 2
    /\ built.value.intervals[4].duration_seconds = 120
    /\ built.value.intervals[2].label = "Short break 1"

\* C15: build_plan raises its configuration error, ValueError, and returns
\* no plan exactly when pomodoros < 1 or one of the three durations is
\* <= 0; on every other input it returns a plan.
C15_SimpleValidation ==
    BuiltCalled
    => /\ (args.pomodoros < 1 \/ args.focus_minutes <= 0
             \/ args.short_break_minutes <= 0 \/ args.long_break_minutes <= 0)
          => (built.raised = "ValueError" /\ built.value = << >>)
       /\ (args.pomodoros >= 1 /\ args.focus_minutes > 0
             /\ args.short_break_minutes > 0 /\ args.long_break_minutes > 0)
          => (built.raised = "none" /\ built.value.intervals # << >>)

\* C15 witness: build_plan was called with a valid pomodoros and a single
\* duration of 0, and raised.
C15_Witness ==
    /\ BuiltCalled /\ built.raised = "ValueError"
    /\ args.pomodoros >= 1 /\ args.focus_minutes > 0
    /\ args.short_break_minutes = 0 /\ args.long_break_minutes > 0

\* The break that follows focus interval index of cycle c (from 0).
BreakAfter(intervals, c, index) ==
    intervals[c * 2 * args.pomodoros + 2 * index]

\* C16: in the cadence plan the break after focus interval index is a
\* long_break exactly when index % long_break_every_n = 0 and otherwise a
\* short_break labeled "Short break {index}"; the plan ends with a short
\* break whenever pomodoros % long_break_every_n # 0.
C16_CadenceBreaks ==
    (CustomCalled /\ ValidCustom)
    => /\ custom.raised = "none"
       /\ \A c \in 0..(args.repeat - 1), index \in 1..args.pomodoros :
             LET b == BreakAfter(custom.value, c, index)
             IN  /\ b.kind = "long_break" <=> index % args.long_interval = 0
                 /\ b.kind # "long_break"
                    => /\ b.kind = "short_break"
                       /\ b.label = "Short break " \o ToStr(index)
       /\ args.pomodoros % args.long_interval # 0
          => custom.value[Len(custom.value)].kind = "short_break"

\* C16 witness: a cadence plan with a long break inside the cycle and a
\* short break at its end (pomodoros = 3, long break every 2).
C16_Witness ==
    /\ CustomCalled /\ ValidCustom
    /\ args.long_interval >= 2
    /\ args.pomodoros % args.long_interval # 0
    /\ CountKind(custom.value, "long_break") >= 1
    /\ custom.value[Len(custom.value)].kind = "short_break"

\* C17: with long_interval = pomodoros and repeat = 1 build_custom_plan
\* returns the same sequence of intervals as build_plan(...).intervals.
C17_CadenceReproducesSimple ==
    (BuiltCalled /\ CustomCalled /\ ValidSimple
       /\ args.long_interval = args.pomodoros /\ args.repeat = 1)
    => /\ built.raised = "none" /\ custom.raised = "none"
       /\ custom.value = built.value.intervals

\* C17 witness: both builders returned, for several pomodoros with
\* long_interval = pomodoros and repeat = 1, and the plans have a short
\* and a long break to agree on.
C17_Witness ==
    /\ BuiltCalled /\ CustomCalled /\ ValidSimple
    /\ args.long_interval = args.pomodoros /\ args.repeat = 1
    /\ args.pomodoros >= 2
    /\ args.short_break_minutes # args.long_break_minutes
    /\ Len(custom.value) = 2 * args.pomodoros

\* The exception the plan builders report an invalid configuration with.
ConfigurationError == "ValueError"

\* C18: build_custom_plan called with long_break_every_n < 1, repeat < 1,
\* pomodoros < 1 or a non-positive duration raises the configuration error
\* and returns no plan.
C18_CadenceValidation ==
    (CustomCalled /\ ~ValidCustom)
    => (custom.raised = ConfigurationError /\ custom.value = << >>)

\* The interval that is current, when the session is not Finished.
Current == plan[current_index + 1]

\* C19: right after a completion, a break that became current is running,
\* with deadline = now + its full effective duration, exactly when
\* "auto-start breaks" is enabled, and a focus interval that became current
\* is running exactly when "auto-start pomodoros" is enabled.
C19_AutoStartByKind ==
    (event # NoEvent /\ ~Finished)
    => IF Current.kind \in {"short_break", "long_break"}
       THEN /\ running <=> auto_start_breaks
            /\ running
               => end_time = now + TicksPerSecond
                                     * EffectiveSeconds(current_index + 1)
       ELSE running <=> auto_start_pomodoros

\* The interval run_interval returned from last, and its length in minutes.
LastRun == cli.plan[cli.done]
LastRunMinutes == LastRun.duration_seconds \div 60

\* C20: running an interval of m minutes sleeps m seconds in total with
\* --fast and m * 60 seconds without it.
C20_CliFastScaling ==
    (cli.pc = "main" /\ cli.done >= 1)
    => cli.slept = IF cli.fast THEN LastRunMinutes ELSE LastRunMinutes * 60

\* ------------------------------------------------- current_index claims
\* C21: for a fixed plan, 0 <= current_index <= len(plan) in every state
\* that reruns with Start, Pause, Reset or no button can reach.
C21_IndexInRange == 0 <= current_index /\ current_index <= Len(plan)

\* C21 witness: the last interval was completed by a tick, which left the
\* index at len(plan), and the session was rerun again after that.
C21_Witness ==
    /\ current_index = Len(plan) /\ Len(plan) >= 2
    /\ op = "tick" /\ prev_op = "tick" /\ ~was_running /\ event = NoEvent

\* C22: a rerun with Pause leaves current_index alone, a rerun with Reset
\* sets it to 0, and the timer logic of a rerun with Start or with no button
\* either leaves it alone or completes the current interval and adds
\* exactly 1 (the Start handler itself leaves it alone: the session it has
\* started is still on the interval the rerun then completes); so the
\* intervals complete in plan order, none twice and none skipped, until the
\* next reset.
C22_IndexChangesOnlyByCompletionOrReset ==
    [][/\ op' = "pause" => (current_index' = current_index /\ event' = NoEvent)
       /\ op' = "reset" => (current_index' = 0 /\ event' = NoEvent)
       /\ op' \in {"start", "tick"}
          => \/ (event' = NoEvent /\ current_index' = current_index)
             \/ (event' = current_index
                 /\ current_index' = current_index + 1)]_vars

\* C22 witness: the second interval of the plan was completed, after the
\* first one and a Start in between.
C22_Witness ==
    /\ op = "tick" /\ prev_op = "start" /\ was_running
    /\ event = 1 /\ current_index = 2

\* r consecutive copies of a list.
RECURSIVE Copies(_, _)
Copies(list, r) == IF r <= 0 THEN << >> ELSE list \o Copies(list, r - 1)

\* What the call that was made returns when repeat is 1 instead.
OneCycle ==
    call_build_custom_plan(args.pomodoros, args.focus_minutes,
                           args.short_break_minutes, args.long_break_minutes,
                           args.long_interval, 1)

\* C23: for a valid configuration build_custom_plan with repeat = r returns
\* r consecutive copies of what it returns with repeat = 1, so every cycle
\* starts again at "Focus 1".
C23_RepeatIsCopies ==
    (CustomCalled /\ ValidCustom)
    => /\ custom.raised = "none" /\ OneCycle.raised = "none"
       /\ custom.value = Copies(OneCycle.value, args.repeat)
       /\ \A c \in 0..(args.repeat - 1) :
             custom.value[c * 2 * args.pomodoros + 1].label = "Focus 1"

\* C23 witness: a plan of several cycles of several pomodoros, with a short
\* and a long break in each cycle.
C23_Witness ==
    /\ CustomCalled /\ ValidCustom
    /\ args.repeat >= 2 /\ args.pomodoros >= 2
    /\ args.long_interval = args.pomodoros
    /\ custom.value[2 * args.pomodoros + 1].label = "Focus 1"
    /\ Len(custom.value) = args.repeat * Len(OneCycle.value)

\* ----------------------------------------------------------- progress
\* C24: a running interval that keeps being ticked as time advances, with
\* no pause and no reset, is eventually completed; and when each completion
\* is followed by a Start the session eventually reaches Finished.
C24_Progress ==
    /\ running ~> (event = current_index - 1 /\ ~running)
    /\ <>(current_index = Len(plan))

\* C24 witness: the last interval of a plan of four was completed by a
\* tick at or after its deadline and the session is Finished.
C24_Witness ==
    /\ Len(plan) = 4 /\ current_index = Len(plan)
    /\ op = "tick" /\ was_running /\ due /\ event = Len(plan) - 1

====
